---- MODULE Spec2Model ----
(***************************************************************************)
(* FlowPilot AI: workflow execution engine.                                *)
(*                                                                         *)
(* The model follows backend/apps/executions (models.py, services.py,      *)
(* viewsets.py) and backend/apps/workflows (viewsets.py, tasks.py).        *)
(* The database is the shared state; every Celery task run and every API   *)
(* request works on in-memory copies of rows (Django model instances) and  *)
(* writes them back with save(update_fields=...), which overwrites exactly *)
(* the listed columns with the values of the copy.                         *)
(*                                                                         *)
(* Columns that no modelled operation reads (output_data, error_message,   *)
(* context, metadata, triggered_by, updated_at, the payload of a step) are *)
(* left out of the rows.  A node's handler is modelled by its outcome: it  *)
(* returns (RunnerNodeOk) or raises (RunnerNodeFail).                      *)
(***************************************************************************)
EXTENDS Integers, Sequences, FiniteSets, TLC

\* ---------------------------------------------------------------- bounds
MaxExecs == 2        \* WorkflowExecution rows created in one behaviour
MaxTime == 2         \* readings of timezone.now() range over 0..MaxTime
MaxRedeliver == 1    \* repeated deliveries of an execute_workflow_async task
MaxRetryRows == 5    \* rows created in the retry-only specification
MaxLimit == 2        \* UsageQuota.limit ranges over 0..MaxLimit
MaxIncrements == 3   \* requests to the increment endpoint in one behaviour
MaxRequests == 3     \* requests to the workflow and execution routes
MaxAiCalls == 3      \* calls of execute_ai_node in one behaviour
MaxClock == 13       \* the wall clock of the scheduler ranges over 0..MaxClock
MaxTicks == 3        \* runs of execute_scheduled_workflows in one behaviour
MaxVersions == 3     \* WorkflowVersion rows created in one behaviour
MaxAttempts == 5     \* LoginAttempt rows created in one behaviour
MaxProvisions == 3   \* calls of provision_user in one behaviour
MaxJumps == 2        \* advances of the clock of the quota job
MaxResetRuns == 2    \* runs of reset_periodic_quotas in one behaviour

\* ------------------------------------------------------ program constants
NULL == -1                  \* None / SQL NULL of a nullable column
DefaultMaxRetries == 3      \* WorkflowExecution.max_retries default

Workflows == {"w1"}
Triggers == {"t1"}                      \* scheduled WorkflowTrigger rows
NoTrigger == "none"                     \* trigger = None
Inputs == {"in1"}                       \* request.data['input_data'] values
EmptyInput == "empty"                   \* input_data = {}
Workers == {1, 2}                       \* Celery worker processes

Cancellable == {"pending", "running", "paused"}
Terminal == {"completed", "failed", "cancelled"}

VARIABLES
    now,          \* timezone.now()
    workflows,    \* table workflows: id -> row
    triggers,     \* table workflow_triggers: id -> row
    executions,   \* table workflow_executions: sequence of rows, id = index
    steps,        \* table execution_steps: execution id -> its rows, in
                  \* creation order
    queue,        \* broker: execution id -> number of undelivered task messages
    redelivered,  \* number of repeated deliveries so far
    runners,      \* worker -> state of its run of execute_workflow_async
    cancelReq,    \* the cancel request between get_object() and cancel()
    response,     \* the last API response: operation, pk of the request, code
    quota,        \* table usage_quotas: the organization's active row
    incReq,       \* client -> its request to the increment endpoint
    incCount,     \* number of increment requests so far
    members,      \* table organization_members: user -> the user's membership
    created,      \* rows of table workflows created through the API
    aclResp,      \* the last response of a workflow or execution route
    cache,        \* table semantic_cache: sequence of rows, in creation order
    aiReq,        \* caller -> its call of AIService.execute_ai_node
    aiCalls,      \* number of execute_ai_node calls so far
    lastTick,     \* when execute_scheduled_workflows last ran
    ticks,        \* number of runs of execute_scheduled_workflows so far
    executed_count,  \* what the last run of execute_scheduled_workflows
                     \* returned
    versions,     \* table workflow_versions: sequence of rows, in creation
                  \* order
    validation,   \* what the last run of validate_workflow_definition returned
    attempts,     \* table login_attempts: the rows of one email, in creation
                  \* order
    loginResp,    \* the last call of login_user: its password and its result
    stateToken,   \* table sso_state_tokens: the row of one state
    exchReq,      \* client -> its call of exchange_code_for_tokens
    accepted,     \* number of exchanges that got past the state check
    users,        \* table users: email -> row, for the users that exist
    ssoMembers,   \* table organization_members: emails of the members of
                  \* the SSO connection's organization
    provResp,     \* the last call of provision_user: its email and result
    provCount,    \* number of provision_user calls so far
    jumps,        \* number of times the clock of the quota job has advanced
    resetRuns,    \* number of runs of reset_periodic_quotas so far
    reset_counts  \* what the last run of reset_periodic_quotas returned

execVars == <<now, workflows, triggers, executions, steps, queue, redelivered,
              runners, cancelReq, response>>
quotaVars == <<quota, incReq, incCount>>
aclVars == <<members, created, aclResp>>
cacheVars == <<cache, aiReq, aiCalls>>
schedVars == <<lastTick, ticks, executed_count>>
versionVars == <<versions, validation>>
loginVars == <<attempts, loginResp>>
ssoVars == <<stateToken, exchReq, accepted>>
provVars == <<users, ssoMembers, provResp, provCount>>
resetVars == <<jumps, resetRuns, reset_counts>>
authVars == <<loginVars, ssoVars, provVars>>
vars == <<execVars, quotaVars, aclVars, cacheVars, schedVars, versionVars,
          authVars, resetVars>>

\* what the operations of one subsystem leave alone
exceptExec == <<quotaVars, aclVars, cacheVars, schedVars, versionVars,
                authVars, resetVars>>
exceptQuota == <<aclVars, cacheVars, schedVars, versionVars, authVars,
                 resetVars>>
exceptAcl == <<quotaVars, cacheVars, schedVars, versionVars, authVars,
               resetVars>>
exceptCache == <<quotaVars, aclVars, schedVars, versionVars, authVars,
                 resetVars>>
exceptSched == <<quotaVars, aclVars, cacheVars, versionVars, authVars,
                 resetVars>>
exceptVersion == <<quotaVars, aclVars, cacheVars, schedVars, authVars,
                   resetVars>>
exceptLogin == <<quotaVars, aclVars, cacheVars, schedVars, versionVars,
                 ssoVars, provVars, resetVars>>
exceptSso == <<quotaVars, aclVars, cacheVars, schedVars, versionVars,
               loginVars, provVars, resetVars>>
exceptProv == <<quotaVars, aclVars, cacheVars, schedVars, versionVars,
                loginVars, ssoVars, resetVars>>
exceptReset == <<aclVars, cacheVars, schedVars, versionVars, authVars>>

ExecIds == 1..Len(executions)

\* ------------------------------------------------------------- ORM helpers

\* Model.save(update_fields=fields): the listed columns of the row take the
\* values of the in-memory instance, every other column keeps its value.
SaveFields(row, obj, fields) ==
    [f \in DOMAIN row |-> IF f \in fields THEN obj[f] ELSE row[f]]

\* (completed_at - started_at).total_seconds(), kept when started_at is None
DurationOf(self, t) ==
    IF self.started_at # NULL THEN t - self.started_at ELSE self.duration

\* ------------------------------------------ WorkflowExecution (models.py)

\* WorkflowExecution.objects.create(...) with the column defaults
NewExecution(w, inp, trig, rc, mr, parent, t) ==
    [workflow |-> w, status |-> "pending", input_data |-> inp,
     trigger |-> trig, started_at |-> NULL, completed_at |-> NULL,
     duration |-> NULL, retry_count |-> rc, max_retries |-> mr,
     parent_execution |-> parent, created_at |-> t]

start(self, t) == [self EXCEPT !.status = "running", !.started_at = t]
StartFields == {"status", "started_at"}

complete(self, t) ==
    [self EXCEPT !.status = "completed", !.completed_at = t,
                 !.duration = DurationOf(self, t)]
fail(self, t) ==
    [self EXCEPT !.status = "failed", !.completed_at = t,
                 !.duration = DurationOf(self, t)]
cancel(self, t) ==
    [self EXCEPT !.status = "cancelled", !.completed_at = t,
                 !.duration = DurationOf(self, t)]
FinishFields == {"status", "completed_at", "duration"}

\* can_retry with the bound on retry_count off by one
can_retry_M(self) ==
    self.status = "failed" /\ self.retry_count <= self.max_retries

can_retry(self) ==
    self.status = "failed" /\ self.retry_count < self.max_retries

\* create_retry that copies retry_count instead of incrementing it
create_retry_M(self, id, t) ==
    NewExecution(self.workflow, self.input_data, self.trigger,
                 self.retry_count, self.max_retries, id, t)

create_retry(self, id, t) ==
    NewExecution(self.workflow, self.input_data, self.trigger,
                 self.retry_count + 1, self.max_retries, id, t)

\* statistics update at the end of complete(): self.workflow is the instance
\* cached on the execution, saved with update_fields
CompleteStats(wf, t) ==
    [wf EXCEPT !.success_count = @ + 1, !.execution_count = @ + 1,
               !.last_executed_at = t]
CompleteStatsFields == {"success_count", "execution_count", "last_executed_at"}
FailStats(wf, t) ==
    [wf EXCEPT !.failure_count = @ + 1, !.execution_count = @ + 1,
               !.last_executed_at = t]
FailStatsFields == {"failure_count", "execution_count", "last_executed_at"}

\* ------------------------------------- UsageQuota (organizations/models.py)
QuotaClients == {1, 2}                  \* concurrent callers of increment
Amounts == {-1, 1, 2}                   \* request.data['amount'] values

\* the organization's active quota row, as created with limit 1
NewQuota ==
    [limit |-> 1, current_usage |-> 0, is_enforced |-> TRUE,
     period |-> "monthly", is_active |-> TRUE, last_reset_at |-> NULL,
     created_at |-> 0]

\* PERIOD_CHOICES
Periods == {"daily", "weekly", "monthly", "yearly", "total"}

\* the timedelta reset_periodic_quotas uses for each period, in days
PeriodDays == [daily |-> 1, weekly |-> 7, monthly |-> 30, yearly |-> 365]

\* `is_enforced and current_usage + amount > limit`: increment_usage raises
QuotaWouldExceed(self, amount) ==
    self.is_enforced /\ (self.current_usage + amount) > self.limit

\* increment_usage past the check: self.current_usage += amount
increment_usage(self, amount) ==
    [self EXCEPT !.current_usage = @ + amount]
IncrementFields == {"current_usage"}

reset_usage(self, t) ==
    [self EXCEPT !.current_usage = 0, !.last_reset_at = t]
ResetFields == {"current_usage", "last_reset_at"}

\* a client with no increment request in progress
NoIncrement == [pc |-> "idle", quota |-> NewQuota, amount |-> 0,
                result |-> "none"]

\* ---------------------------------- tenancy (organizations, permissions)
Users == {"ann", "bob"}                 \* authenticated principals
Orgs == {"o1", "o2"}
NoOrg == "none"                         \* request without ?organization=
WorkflowOrg == [w \in Workflows |-> "o1"]     \* Workflow.organization
CreatedIds == {"c1"}                    \* ids of workflows created by POST

\* the permissions maps of the system roles (create_default_roles), for the
\* modules of the workflow and execution routes
RolePermissions ==
    [member |->
       [workflows |-> [create |-> TRUE, read |-> TRUE, update |-> TRUE,
                       delete |-> FALSE],
        executions |-> [create |-> TRUE, read |-> TRUE, update |-> FALSE,
                        delete |-> FALSE]],
     viewer |->
       [workflows |-> [create |-> FALSE, read |-> TRUE, update |-> FALSE,
                       delete |-> FALSE],
        executions |-> [create |-> FALSE, read |-> TRUE, update |-> FALSE,
                        delete |-> FALSE]]]
Roles == DOMAIN RolePermissions

\* OrganizationMember.has_permission with empty custom_permissions:
\* Role.has_permission(module, action)
has_permission(member, module, action) ==
    RolePermissions[member.role][module][action]

\* OrganizationService.user_has_permission(user, organization, module,
\* action): the active membership's permission, False without one
user_has_permission(u, org, module, action) ==
    /\ members[u].organization = org
    /\ members[u].is_active
    /\ has_permission(members[u], module, action)

\* ann is a viewer of o1, bob a member of o2
InitMembers ==
    [u \in Users |->
       IF u = "ann"
       THEN [organization |-> "o1", is_active |-> TRUE, role |-> "viewer"]
       ELSE [organization |-> "o2", is_active |-> TRUE, role |-> "member"]]

NoResponse == [n |-> 0, user |-> "none", route |-> "none", org |-> NoOrg,
               code |-> 0, rows |-> {}, execs |-> {}]

\* ------------------------------------------ SemanticCache (ai_engine)
AiCallers == {1, 2}                     \* concurrent AI node executions
Prompts == {"hello"}                    \* config['prompt'] values
Models == {"gemini-1.5-pro"}            \* config['model'] values
Responses == {"r1", "r2"}               \* response.text of the Gemini API

\* ttl_hours = 24, in clock readings
TtlHours == 1

\* hashlib.sha256(prompt.encode()).hexdigest(): one digest per prompt, no
\* two prompts of the model share one
sha256(prompt) == "sha256:" \o prompt

\* SemanticCache.objects.create(...) in _cache_response
NewCacheRow(prompt, model, resp, t) ==
    [prompt_hash |-> sha256(prompt), prompt |-> prompt, response |-> resp,
     model |-> model, hit_count |-> 0, last_hit_at |-> NULL,
     expires_at |-> t + TtlHours]

NoCacheRow == NewCacheRow("hello", "gemini-1.5-pro", "r1", 0)
NoAiCall == [pc |-> "idle", prompt |-> "hello", model |-> "gemini-1.5-pro",
             row |-> 0, cache |-> NoCacheRow, output |-> "none",
             cached |-> FALSE]

\* ------------------------------------------- cron (workflows/tasks.py)
\* timedelta(minutes=1), in readings of the scheduler's clock (one reading
\* is 20 seconds)
Minute == 3

Crons == {"* * * * *", "*/2 * * * *"}   \* WorkflowTrigger.cron_expression

\* the time between two firings of the expression
CronPeriod(expr) == IF expr = "* * * * *" THEN Minute ELSE 2 * Minute

\* croniter(expr, t).get_next(): the first firing time after t
get_next(expr, t) == ((t \div CronPeriod(expr)) + 1) * CronPeriod(expr)

\* ------------------------------------------ LoginAttempt (users/models.py)
\* settings.MAX_LOGIN_ATTEMPTS
MaxLoginAttempts == 2
\* settings.ACCOUNT_LOCKOUT_DURATION, in readings of the clock
LockoutDuration == 1

\* LoginAttempt.objects.create(email, success, failure_reason) at time t
NewLoginAttempt(success, failure_reason, t) ==
    [success |-> success, failure_reason |-> failure_reason,
     attempted_at |-> t]

NoLogin == [password_ok |-> FALSE, result |-> "none"]

\* ------------------------------------------ SSOStateToken (sso/models.py)
SsoClients == {1, 2}                    \* concurrent callback requests

\* the row of the state that the authorization redirect created at time 0
NewStateToken == [is_used |-> FALSE, used_at |-> NULL, expires_at |-> 1]

\* SSOStateToken.is_valid at time t
is_valid(self, t) ==
    IF self.is_used THEN FALSE
    ELSE IF t > self.expires_at THEN FALSE
    ELSE TRUE

NoExchange == [pc |-> "idle", state_token |-> NewStateToken,
               result |-> "none"]

\* ------------------------------------- user provisioning (sso/services.py)
\* user_info['email'] values, as texts of tokens with '@' a token of its
\* own: u@corp.com, v@corp.com, u@other.com, "u@corp.com"@other.com and u
Emails ==
    {<<"u", "@", "corp.com">>, <<"v", "@", "corp.com">>,
     <<"u", "@", "other.com">>,
     <<"u", "@", "corp.com", "@", "other.com">>, <<"u">>}
FirstNames == {"Ann", "Bea"}            \* user_info first names

\* connection.allowed_domains
AllowedDomains == {<<"corp.com">>}

\* email.split('@'): the pieces of the text between the '@' signs
RECURSIVE split(_)
split(email) ==
    IF \A i \in 1..Len(email) : email[i] # "@"
    THEN <<email>>
    ELSE LET i == CHOOSE n \in 1..Len(email) :
                    /\ email[n] = "@"
                    /\ \A m \in 1..(n - 1) : email[m] # "@"
         IN  <<SubSeq(email, 1, i - 1)>>
                 \o split(SubSeq(email, i + 1, Len(email)))

InitUsers == {[email |-> <<"u", "@", "corp.com">>, first_name |-> "Ann"]}
NoProvision == [email |-> <<"u">>, result |-> "none"]

\* ------------------------------------- workflow definitions (JSON)
\* {"nodes": [{"id": ..., "type": ...}, ...], "edges": [{"id": ...,
\* "source": ..., "target": ...}, ...]}: the node ids in array order and the
\* (source, target) pairs of the edges
Definition(nodes, edges) == [nodes |-> nodes, edges |-> edges]

\* request.data['definition'] values: a chain in and against array order, a
\* single node, a self-loop, a two-node cycle, an edge to a node that does
\* not exist, a repeated node id, and an object without the "edges" key
Definitions ==
    {Definition(<<"a", "b">>, {<<"a", "b">>}),
     Definition(<<"b", "a">>, {<<"a", "b">>}),
     Definition(<<"a">>, {}),
     Definition(<<"a">>, {<<"a", "a">>}),
     Definition(<<"a", "b">>, {<<"a", "b">>, <<"b", "a">>}),
     Definition(<<"a">>, {<<"a", "z">>}),
     Definition(<<"a", "a">>, {}),
     [nodes |-> <<"a">>]}

\* the ids of the nodes array
NodeIds(nodes) == {nodes[i] : i \in 1..Len(nodes)}

\* --------------------------------------------------------------- initial
NoExecution == NewExecution("w1", EmptyInput, NoTrigger, 0, 0, NULL, NULL)
NoWorkflow ==
    [is_active |-> FALSE, status |-> "draft",
     definition |-> Definition(<<>>, {}),
     version |-> 1, current_version |-> NULL,
     execution_count |-> 0, success_count |-> 0, failure_count |-> 0,
     last_executed_at |-> NULL]

\* a worker that is not running execute_workflow_async
IdleRunner ==
    [pc |-> "idle", id |-> 0, execution |-> NoExecution,
     workflow |-> NoWorkflow, nodes |-> <<>>, step_number |-> 0, step |-> 0]
NoCancel == [active |-> FALSE, id |-> 0, execution |-> NoExecution]

\* an empty database but for the workflows, which are active and have the
\* definition `def`
InitDef(def, crons) ==
    /\ now = 0
    /\ workflows = [w \in Workflows |->
          [is_active |-> TRUE, status |-> "active", definition |-> def,
           version |-> 1, current_version |-> NULL,
           execution_count |-> 0, success_count |-> 0, failure_count |-> 0,
           last_executed_at |-> NULL]]
    /\ \E cron \in crons :
          triggers = [t \in Triggers |->
             [workflow |-> "w1", trigger_type |-> "scheduled",
              cron_expression |-> cron, is_active |-> TRUE,
              execution_count |-> 0, last_triggered_at |-> NULL]]
    /\ executions = <<>>
    /\ steps = <<>>
    /\ queue = <<>>
    /\ redelivered = 0
    /\ runners = [r \in Workers |-> IdleRunner]
    /\ cancelReq = NoCancel
    /\ response = [op |-> "none", id |-> 0, code |-> 0]
    /\ quota = NewQuota
    /\ incReq = [c \in QuotaClients |-> NoIncrement]
    /\ incCount = 0
    /\ members = InitMembers
    /\ created = {}
    /\ aclResp = NoResponse
    /\ cache = <<>>
    /\ aiReq = [c \in AiCallers |-> NoAiCall]
    /\ aiCalls = 0
    /\ lastTick = 0
    /\ ticks = 0
    /\ executed_count = 0
    /\ versions = <<>>
    /\ validation = [definition |-> def, valid |-> TRUE, errors |-> {}]
    /\ attempts = <<>>
    /\ loginResp = NoLogin
    /\ stateToken = NewStateToken
    /\ exchReq = [c \in SsoClients |-> NoExchange]
    /\ accepted = 0
    /\ users = InitUsers
    /\ ssoMembers = {}
    /\ provResp = NoProvision
    /\ provCount = 0
    /\ jumps = 0
    /\ resetRuns = 0
    /\ reset_counts = 0

\* the same, for a definition with the nodes `nodes` and no edges
InitOf(nodes, crons) == InitDef(Definition(nodes, {}), crons)

InitWith(nodes) == InitOf(nodes, {"* * * * *"})

Init == InitWith(<<"a", "b">>)

\* ---------------------------------------------------------------- clock
Tick ==
    /\ now < MaxTime
    /\ now' = now + 1
    /\ UNCHANGED <<workflows, triggers, executions, steps, queue,
                   redelivered, runners, cancelReq, response>>
    /\ UNCHANGED exceptExec

\* ------------------------------------- ExecutionService.execute_workflow
\* creates the row and queues execute_workflow_async.delay(id)
execute_workflow(w, inp, trig) ==
    /\ executions' = Append(executions,
          NewExecution(w, inp, trig, 0, DefaultMaxRetries, NULL, now))
    /\ queue' = Append(queue, 1)
    /\ steps' = Append(steps, <<>>)

\* WorkflowViewSet.execute, past get_object()
ExecuteView(w, inp) ==
    /\ IF ~workflows[w].is_active
       THEN /\ response' = [op |-> "execute", id |-> 0, code |-> 400]
            /\ UNCHANGED <<executions, queue, steps>>
       ELSE /\ execute_workflow(w, inp, NoTrigger)
            /\ response' = [op |-> "execute", id |-> 0, code |-> 201]
    /\ UNCHANGED <<now, workflows, triggers, redelivered, runners, cancelReq>>

\* POST /workflows/{id}/execute/ by a principal get_object() lets through
Execute(w, inp) == ExecuteView(w, inp) /\ UNCHANGED exceptExec

\* WorkflowTrigger.increment_execution_count
increment_execution_count(self, t) ==
    [self EXCEPT !.execution_count = @ + 1, !.last_triggered_at = t]

\* execute_scheduled_workflows, for one active scheduled trigger of an active
\* workflow whose cron expression is due: execute_workflow(...) with empty
\* input and trigger.increment_execution_count()
ExecuteScheduled(t) ==
    /\ triggers[t].trigger_type = "scheduled"
    /\ triggers[t].is_active
    /\ workflows[triggers[t].workflow].is_active
    /\ execute_workflow(triggers[t].workflow, EmptyInput, t)
    /\ triggers' = [triggers EXCEPT
          ![t] = increment_execution_count(@, now)]
    /\ UNCHANGED <<now, workflows, redelivered, runners, cancelReq, response>>
    /\ UNCHANGED exceptExec

\* ------------------------------ ExecutionService.execute_workflow_async
\* A worker receives a task message: WorkflowExecution.objects.get(id),
\* execution.start() (no check of the current status), and
\* execution.workflow.definition, which loads and caches the workflow row.
\* Workers are interchangeable: the message goes to the first idle one.
RunnerStart(r, e) ==
    /\ runners[r].pc = "idle"
    /\ \A r2 \in Workers : r2 < r => runners[r2].pc # "idle"
    /\ queue[e] > 0
    /\ queue' = [queue EXCEPT ![e] = @ - 1]
    /\ LET obj == start(executions[e], now)
           wf == workflows[executions[e].workflow]
       IN /\ executions' = [executions EXCEPT
                 ![e] = SaveFields(@, obj, StartFields)]
          /\ runners' = [runners EXCEPT ![r] =
                 [pc |-> "loop", id |-> e, execution |-> obj,
                  workflow |-> wf, nodes |-> wf.definition.nodes,
                  step_number |-> 1, step |-> 0]]
    /\ UNCHANGED <<now, workflows, triggers, steps, redelivered, cancelReq,
                   response>>
    /\ UNCHANGED exceptExec

\* The broker hands a task message to a worker a second time (at-least-once
\* delivery), or the task is queued again for the same execution id.
Redeliver(e) ==
    /\ redelivered < MaxRedeliver
    /\ queue' = [queue EXCEPT ![e] = @ + 1]
    /\ redelivered' = redelivered + 1
    /\ UNCHANGED <<now, workflows, triggers, executions, steps, runners,
                   cancelReq, response>>
    /\ UNCHANGED exceptExec

\* loop head with a node left: ExecutionStep.objects.create(...), step.start()
RunnerCreateStep(r) ==
    /\ runners[r].pc = "loop"
    /\ runners[r].nodes # <<>>
    /\ steps' = [steps EXCEPT ![runners[r].id] = Append(@,
          [node_id |-> Head(runners[r].nodes),
           step_number |-> runners[r].step_number, status |-> "running"])]
    /\ runners' = [runners EXCEPT ![r].pc = "node",
                                  ![r].step = Len(steps[runners[r].id]) + 1]
    /\ UNCHANGED <<now, workflows, triggers, executions, queue, redelivered,
                   cancelReq, response>>
    /\ UNCHANGED exceptExec

\* _execute_node returned: step.complete(), step_number += 1
RunnerNodeOk(r) ==
    /\ runners[r].pc = "node"
    /\ steps' = [steps EXCEPT ![runners[r].id][runners[r].step].status =
                                 "completed"]
    /\ runners' = [runners EXCEPT ![r].pc = "loop",
                                  ![r].nodes = Tail(@),
                                  ![r].step_number = @ + 1]
    /\ UNCHANGED <<now, workflows, triggers, executions, queue, redelivered,
                   cancelReq, response>>
    /\ UNCHANGED exceptExec

\* _execute_node raised: step.fail(), execution.fail(), return
RunnerNodeFail(r) ==
    /\ runners[r].pc = "node"
    /\ steps' = [steps EXCEPT ![runners[r].id][runners[r].step].status =
                                 "failed"]
    /\ LET e == runners[r].id
           obj == fail(runners[r].execution, now)
           wf == FailStats(runners[r].workflow, now)
       IN /\ executions' = [executions EXCEPT
                 ![e] = SaveFields(@, obj, FinishFields)]
          /\ workflows' = [workflows EXCEPT
                 ![obj.workflow] = SaveFields(@, wf, FailStatsFields)]
    /\ runners' = [runners EXCEPT ![r] = IdleRunner]
    /\ UNCHANGED <<now, triggers, queue, redelivered, cancelReq, response>>
    /\ UNCHANGED exceptExec

\* loop exhausted: execution.complete(output_data=context)
RunnerComplete(r) ==
    /\ runners[r].pc = "loop"
    /\ runners[r].nodes = <<>>
    /\ LET e == runners[r].id
           obj == complete(runners[r].execution, now)
           wf == CompleteStats(runners[r].workflow, now)
       IN /\ executions' = [executions EXCEPT
                 ![e] = SaveFields(@, obj, FinishFields)]
          /\ workflows' = [workflows EXCEPT
                 ![obj.workflow] = SaveFields(@, wf, CompleteStatsFields)]
    /\ runners' = [runners EXCEPT ![r] = IdleRunner]
    /\ UNCHANGED <<now, triggers, steps, queue, redelivered, cancelReq,
                   response>>
    /\ UNCHANGED exceptExec

\* -------------------------------------- workflow definition validation
\* WorkflowSerializer.validate_definition: the value is an object with the
\* keys "nodes" and "edges", every node has "id" and "type", every edge has
\* "id", "source" and "target" (the nodes and edges of the model's values
\* have them)
validate_definition(value) ==
    /\ "nodes" \in DOMAIN value
    /\ "edges" \in DOMAIN value

\* WorkflowService.validate_workflow_definition: the list of errors
validate_workflow_definition(definition) ==
    IF "nodes" \notin DOMAIN definition \/ "edges" \notin DOMAIN definition
    THEN {k \in {"nodes", "edges"} : k \notin DOMAIN definition}
    ELSE LET nodes == definition.nodes
             node_ids == NodeIds(nodes)
         IN {err \in {"duplicate node id"} :
                \E i, j \in 1..Len(nodes) : i < j /\ nodes[i] = nodes[j]}
            \cup {err \in {"invalid source"} :
                \E edge \in definition.edges : edge[1] \notin node_ids}
            \cup {err \in {"invalid target"} :
                \E edge \in definition.edges : edge[2] \notin node_ids}

\* WorkflowStatus choices
Statuses == {"draft", "active", "paused", "archived"}

\* request bodies of PATCH /workflows/{id}/: the writable columns of
\* WorkflowSerializer that the model keeps
PatchData ==
    {[definition |-> d] : d \in Definitions}
    \cup {[status |-> st] : st \in Statuses}
    \cup {[is_active |-> a] : a \in BOOLEAN}
    \cup {[status |-> st, is_active |-> a] : st \in Statuses, a \in BOOLEAN}

\* PATCH /workflows/{id}/, past get_object(): serializer.is_valid() and
\* ModelSerializer.update, which sets the given columns and saves
partial_update(w, data) ==
    /\ IF "definition" \in DOMAIN data /\ ~validate_definition(data.definition)
       THEN /\ response' = [op |-> "update", id |-> 0, code |-> 400]
            /\ UNCHANGED workflows
       ELSE /\ workflows' = [workflows EXCEPT ![w] =
                  [f \in DOMAIN @ |->
                     IF f \in DOMAIN data THEN data[f] ELSE @[f]]]
            /\ response' = [op |-> "update", id |-> 0, code |-> 200]
    /\ UNCHANGED <<now, triggers, executions, steps, queue, redelivered,
                   runners, cancelReq, versionVars>>
    /\ UNCHANGED exceptVersion

\* tasks.validate_workflow_definition(workflow_id)
ValidateTask(w) ==
    /\ LET errors == validate_workflow_definition(workflows[w].definition)
       IN validation' = [definition |-> workflows[w].definition,
                         valid |-> errors = {}, errors |-> errors]
    /\ UNCHANGED <<execVars, versions>>
    /\ UNCHANGED exceptVersion

\* POST /workflows/{id}/archive/, past get_object()
Archive(w) ==
    /\ workflows' = [workflows EXCEPT ![w].is_active = FALSE,
                                      ![w].status = "archived"]
    /\ response' = [op |-> "archive", id |-> 0, code |-> 200]
    /\ UNCHANGED <<now, triggers, executions, steps, queue, redelivered,
                   runners, cancelReq, versionVars>>
    /\ UNCHANGED exceptVersion

\* failure_threshold = 10 of auto_pause_failing_workflows, scaled to the
\* number of executions of one behaviour
FailureThreshold == 1

\* failure_count / execution_count >= failure_rate, for failure_rate = 0.8
FailureRateReached(wf) == 5 * wf.failure_count >= 4 * wf.execution_count

\* tasks.auto_pause_failing_workflows: every active workflow with at least
\* failure_threshold executions and the failure rate reached is paused
auto_pause_failing_workflows ==
    /\ workflows' = [w \in Workflows |->
          IF /\ workflows[w].is_active
             /\ workflows[w].execution_count >= FailureThreshold
             /\ workflows[w].execution_count > 0
             /\ FailureRateReached(workflows[w])
          THEN [workflows[w] EXCEPT !.is_active = FALSE, !.status = "paused"]
          ELSE workflows[w]]
    /\ UNCHANGED <<now, triggers, executions, steps, queue, redelivered,
                   runners, cancelReq, response, versionVars>>
    /\ UNCHANGED exceptVersion

\* ------------------------------------------------- workflow versions
\* WorkflowVersion.objects.create(workflow=self,
\* version_number=self.version + 1, definition=definition) in create_version
NewVersion(w, self, definition) ==
    [workflow |-> w, version_number |-> self.version + 1,
     definition |-> definition]

\* Workflow.create_version past the insert: version and current_version
\* are set and saved; the definition column is not touched
create_version(self, version) ==
    [self EXCEPT !.version = version.version_number,
                 !.current_version = version.version_number]

\* rollback_to_version that moves current_version and leaves the definition
rollback_to_version_M(self, version) ==
    [self EXCEPT !.current_version = version.version_number]

\* Workflow.rollback_to_version past the lookup
rollback_to_version(self, version) ==
    [self EXCEPT !.definition = version.definition,
                 !.current_version = version.version_number]

\* self.versions.get(version_number=n): the matching rows
VersionRows(w, n) ==
    {i \in 1..Len(versions) : /\ versions[i].workflow = w
                              /\ versions[i].version_number = n}

\* POST /workflows/{id}/create_version/, past get_object(); the unique
\* constraint (workflow, version_number) refuses a second row with the number
CreateVersion(w, definition) ==
    /\ Len(versions) < MaxVersions
    /\ LET version == NewVersion(w, workflows[w], definition)
       IN IF VersionRows(w, version.version_number) # {}
          THEN /\ response' = [op |-> "create_version", id |-> 0,
                               code |-> 500]
               /\ UNCHANGED <<versions, workflows>>
          ELSE /\ versions' = Append(versions, version)
               /\ workflows' = [workflows EXCEPT
                      ![w] = create_version(@, version)]
               /\ response' = [op |-> "create_version",
                               id |-> version.version_number, code |-> 201]
    /\ UNCHANGED <<now, triggers, executions, steps, queue, redelivered,
                   runners, cancelReq, validation>>
    /\ UNCHANGED exceptVersion

\* POST /workflows/{id}/rollback/ with version_number = n, past get_object()
Rollback(w, n) ==
    /\ IF VersionRows(w, n) = {}
       THEN /\ response' = [op |-> "rollback", id |-> n, code |-> 404]
            /\ UNCHANGED workflows
       ELSE /\ LET version == versions[CHOOSE i \in VersionRows(w, n) : TRUE]
               IN workflows' = [workflows EXCEPT
                     ![w] = rollback_to_version(@, version)]
            /\ response' = [op |-> "rollback", id |-> n, code |-> 200]
    /\ UNCHANGED <<now, triggers, executions, steps, queue, redelivered,
                   runners, cancelReq, versionVars>>
    /\ UNCHANGED exceptVersion

\* ------------------------------------------- AuthenticationService
\* LoginAttempt.is_account_locked(email): the failed attempts of the email
\* since now - ACCOUNT_LOCKOUT_DURATION number at least MAX_LOGIN_ATTEMPTS
is_account_locked ==
    LET cutoff_time == now - LockoutDuration
        recent_failures ==
            Cardinality({i \in 1..Len(attempts) :
                           /\ ~attempts[i].success
                           /\ attempts[i].attempted_at >= cutoff_time})
    IN recent_failures >= MaxLoginAttempts

\* login_user(email, password) for an active user without MFA;
\* password_ok: authenticate() finds the user
login_user(password_ok) ==
    /\ Len(attempts) < MaxAttempts
    /\ IF is_account_locked
       THEN /\ attempts' = Append(attempts,
                   NewLoginAttempt(FALSE, "account_locked", now))
            /\ loginResp' = [password_ok |-> password_ok,
                             result |-> "account_locked"]
       ELSE IF ~password_ok
       THEN /\ attempts' = Append(attempts,
                   NewLoginAttempt(FALSE, "invalid_credentials", now))
            /\ loginResp' = [password_ok |-> password_ok,
                             result |-> "invalid_credentials"]
       ELSE /\ attempts' = Append(attempts, NewLoginAttempt(TRUE, "none", now))
            /\ loginResp' = [password_ok |-> password_ok, result |-> "ok"]
    /\ UNCHANGED execVars
    /\ UNCHANGED exceptLogin

\* ------------------------------ OAuth2Service.exchange_code_for_tokens
\* SSOStateToken.objects.get(state=state, connection=..., is_used=False)
\* and state_token.is_valid()
ExchangeRead(c) ==
    /\ exchReq[c].pc = "idle"
    /\ IF stateToken.is_used
       THEN exchReq' = [exchReq EXCEPT ![c].result = "invalid_state"]
       ELSE IF ~is_valid(stateToken, now)
       THEN exchReq' = [exchReq EXCEPT ![c].result = "expired"]
       ELSE exchReq' = [exchReq EXCEPT ![c] =
               [pc |-> "save", state_token |-> stateToken,
                result |-> "none"]]
    /\ UNCHANGED <<stateToken, accepted, execVars>>
    /\ UNCHANGED exceptSso

\* is_used = True, used_at = now, state_token.save(); the exchange goes on
\* to the provider's token endpoint
ExchangeSave(c) ==
    /\ exchReq[c].pc = "save"
    /\ stateToken' = [exchReq[c].state_token EXCEPT !.is_used = TRUE,
                                                   !.used_at = now]
    /\ accepted' = accepted + 1
    /\ exchReq' = [exchReq EXCEPT ![c] =
          [pc |-> "idle", state_token |-> stateToken',
           result |-> "accepted"]]
    /\ UNCHANGED execVars
    /\ UNCHANGED exceptSso

\* ------------------------------- UserProvisioningService.provision_user
\* auto: connection.auto_provision_users
provision_user(email, first_name, auto) ==
    /\ provCount < MaxProvisions
    /\ provCount' = provCount + 1
    /\ IF AllowedDomains # {} /\ Len(split(email)) < 2
       THEN \* split('@')[1] raises IndexError
            /\ provResp' = [email |-> email, result |-> "error"]
            /\ UNCHANGED <<users, ssoMembers>>
       ELSE IF AllowedDomains # {} /\ split(email)[2] \notin AllowedDomains
       THEN /\ provResp' = [email |-> email, result |-> "error"]
            /\ UNCHANGED <<users, ssoMembers>>
       ELSE IF \E u \in users : u.email = email
       THEN /\ users' = IF auto
                        THEN {IF u.email = email
                              THEN [u EXCEPT !.first_name = first_name]
                              ELSE u : u \in users}
                        ELSE users
            /\ ssoMembers' = ssoMembers \cup {email}
            /\ provResp' = [email |-> email, result |-> "updated"]
       ELSE IF ~auto
       THEN /\ provResp' = [email |-> email, result |-> "error"]
            /\ UNCHANGED <<users, ssoMembers>>
       ELSE /\ users' = users \cup
                   {[email |-> email, first_name |-> first_name]}
            /\ ssoMembers' = ssoMembers \cup {email}
            /\ provResp' = [email |-> email, result |-> "created"]
    /\ UNCHANGED execVars
    /\ UNCHANGED exceptProv

\* ------------------------------------------------- a worker process stops
\* The worker that received the task message of execution e stops before
\* execution.start(): the message was acknowledged when it was received
\* (Celery's default, the task sets no acks_late) and no row is written.
StopBeforeStart(e) ==
    /\ queue[e] > 0
    /\ queue' = [queue EXCEPT ![e] = @ - 1]
    /\ UNCHANGED <<now, workflows, triggers, executions, steps, redelivered,
                   runners, cancelReq, response>>
    /\ UNCHANGED exceptExec

\* The worker stops inside the node loop: its run is gone, the rows stay as
\* they are.  The broker setting is not part of the sources, so the message
\* is either gone (acknowledged on receipt) or handed out again (late
\* acknowledgement).
StopInLoop(r, requeue) ==
    /\ runners[r].pc \in {"loop", "node"}
    /\ runners' = [runners EXCEPT ![r] = IdleRunner]
    /\ IF requeue
       THEN /\ redelivered < MaxRedeliver
            /\ queue' = [queue EXCEPT ![runners[r].id] = @ + 1]
            /\ redelivered' = redelivered + 1
       ELSE UNCHANGED <<queue, redelivered>>
    /\ UNCHANGED <<now, workflows, triggers, executions, steps, cancelReq,
                   response>>
    /\ UNCHANGED exceptExec

\* ------------------------------------------ WorkflowExecutionViewSet.cancel
\* CancelRequest with the status check reduced to `status != 'completed'`
CancelRequest_M(e) ==
    /\ ~cancelReq.active
    /\ IF executions[e].status = "completed"
       THEN /\ response' = [op |-> "cancel", id |-> e, code |-> 400]
            /\ UNCHANGED cancelReq
       ELSE /\ cancelReq' = [active |-> TRUE, id |-> e,
                             execution |-> executions[e]]
            /\ UNCHANGED response
    /\ UNCHANGED <<now, workflows, triggers, executions, steps, queue,
                   redelivered,
                   runners>>
    /\ UNCHANGED exceptExec

\* execution = self.get_object() and the status check
CancelRequest(e) ==
    /\ ~cancelReq.active
    /\ IF executions[e].status \notin Cancellable
       THEN /\ response' = [op |-> "cancel", id |-> e, code |-> 400]
            /\ UNCHANGED cancelReq
       ELSE /\ cancelReq' = [active |-> TRUE, id |-> e,
                             execution |-> executions[e]]
            /\ UNCHANGED response
    /\ UNCHANGED <<now, workflows, triggers, executions, steps, queue,
                   redelivered, runners>>
    /\ UNCHANGED exceptExec

\* execution.cancel() on the instance read by get_object(), and the response
CancelSave ==
    /\ cancelReq.active
    /\ LET e == cancelReq.id
           obj == cancel(cancelReq.execution, now)
       IN /\ executions' = [executions EXCEPT
                 ![e] = SaveFields(@, obj, FinishFields)]
          /\ response' = [op |-> "cancel", id |-> e, code |-> 200]
    /\ cancelReq' = NoCancel
    /\ UNCHANGED <<now, workflows, triggers, steps, queue, redelivered,
                   runners>>
    /\ UNCHANGED exceptExec

\* ------------------------------------------- WorkflowExecutionViewSet.retry
RetryView(e) ==
    /\ IF ~can_retry(executions[e])
       THEN /\ response' = [op |-> "retry", id |-> e, code |-> 400]
            /\ UNCHANGED <<executions, queue, steps>>
       ELSE /\ executions' = Append(executions,
                                    create_retry(executions[e], e, now))
            /\ queue' = Append(queue, 1)
            /\ steps' = Append(steps, <<>>)
            /\ response' = [op |-> "retry", id |-> e, code |-> 201]
    /\ UNCHANGED <<now, workflows, triggers, redelivered, runners, cancelReq>>

\* POST /executions/{id}/retry/ by a principal get_object() lets through
Retry(e) == RetryView(e) /\ UNCHANGED exceptExec

\* ------------------------------------- tasks.update_workflow_statistics
CountRows(w, statuses) ==
    Cardinality({e \in ExecIds : /\ executions[e].workflow = w
                                 /\ executions[e].status \in statuses})
AllStatuses == Cancellable \cup Terminal

\* executions.order_by('-created_at').first().created_at, None without rows
LastCreatedAt(w) ==
    LET rows == {e \in ExecIds : executions[e].workflow = w}
    IN IF rows = {} THEN NULL
       ELSE CHOOSE t \in {executions[e].created_at : e \in rows} :
               \A e \in rows : executions[e].created_at <= t

update_workflow_statistics ==
    /\ workflows' = [w \in Workflows |->
          [workflows[w] EXCEPT
              !.execution_count = CountRows(w, AllStatuses),
              !.success_count = CountRows(w, {"completed"}),
              !.failure_count = CountRows(w, {"failed"}),
              !.last_executed_at = LastCreatedAt(w)]]
    /\ UNCHANGED <<now, triggers, executions, steps, queue, redelivered,
                   runners, cancelReq, response>>
    /\ UNCHANGED exceptExec

\* ------------------------------------------------- UsageQuotaViewSet
\* increment, first half: quota = self.get_object() and
\* amount = request.data.get('amount', 1), passed on as it came
IncrementRequest(c, amount) ==
    /\ incReq[c].pc # "read"
    /\ incCount < MaxIncrements
    /\ incCount' = incCount + 1
    /\ incReq' = [incReq EXCEPT ![c] =
          [pc |-> "read", quota |-> quota, amount |-> amount,
           result |-> "none"]]
    /\ UNCHANGED <<quota, execVars>>
    /\ UNCHANGED exceptQuota

\* increment, second half: quota.increment_usage(amount) on the instance
\* read by get_object(); ValueError becomes the 400 response
IncrementSave(c) ==
    /\ incReq[c].pc = "read"
    /\ IF QuotaWouldExceed(incReq[c].quota, incReq[c].amount)
       THEN /\ incReq' = [incReq EXCEPT ![c].pc = "done",
                                         ![c].result = "error"]
            /\ UNCHANGED quota
       ELSE LET obj == increment_usage(incReq[c].quota, incReq[c].amount)
            IN /\ quota' = SaveFields(quota, obj, IncrementFields)
               /\ incReq' = [incReq EXCEPT ![c].pc = "done",
                                            ![c].quota = obj,
                                            ![c].result = "ok"]
    /\ UNCHANGED <<incCount, execVars>>
    /\ UNCHANGED exceptQuota

\* reset: quota = self.get_object(); quota.reset_usage()
ResetQuota ==
    /\ quota' = SaveFields(quota, reset_usage(quota, now), ResetFields)
    /\ UNCHANGED <<incReq, incCount, execVars>>
    /\ UNCHANGED exceptQuota

\* partial_update of the writable columns period and is_active
UpdatePeriod(period, active) ==
    /\ quota' = [quota EXCEPT !.period = period, !.is_active = active]
    /\ quota' # quota
    /\ UNCHANGED <<incReq, incCount, execVars>>
    /\ UNCHANGED exceptQuota

\* ------------------------------- tasks.reset_periodic_quotas
\* UsageQuota.objects.filter(period=p, is_active=True,
\* last_reset_at__lt=now - timedelta(...)): a NULL last_reset_at matches no
\* __lt filter
DueForReset(q) ==
    /\ q.period \in DOMAIN PeriodDays
    /\ q.is_active
    /\ q.last_reset_at # NULL
    /\ q.last_reset_at < now - PeriodDays[q.period]

\* one run of the task: quota.reset_usage() for every row of the four
\* queries; returns the number of rows reset
reset_periodic_quotas ==
    /\ resetRuns < MaxResetRuns
    /\ resetRuns' = resetRuns + 1
    /\ IF DueForReset(quota)
       THEN /\ quota' = SaveFields(quota, reset_usage(quota, now),
                                   ResetFields)
            /\ reset_counts' = 1
       ELSE /\ UNCHANGED quota
            /\ reset_counts' = 0
    /\ UNCHANGED <<incReq, incCount, jumps, execVars>>
    /\ UNCHANGED exceptReset

\* the clock moves on by d days
AdvanceDays(d) ==
    /\ jumps < MaxJumps
    /\ jumps' = jumps + 1
    /\ now' = now + d
    /\ UNCHANGED <<workflows, triggers, executions, steps, queue,
                   redelivered, runners, cancelReq, response>>
    /\ UNCHANGED <<quotaVars, resetRuns, reset_counts>>
    /\ UNCHANGED exceptReset

\* partial_update by an owner or admin: the serializer accepts any limit >= 0
\* and any is_enforced; current_usage is read-only
UpdateQuota(limit, enforced) ==
    /\ quota' = [quota EXCEPT !.limit = limit, !.is_enforced = enforced]
    /\ quota' # quota
    /\ UNCHANGED <<incReq, incCount, execVars>>
    /\ UNCHANGED exceptQuota

\* ------------------------------ QuotaEnforcementMiddleware (billing)
\* getattr(obj, name, default)
GetAttr(obj, name, default) ==
    IF name \in DOMAIN obj THEN obj[name] ELSE default

\* float('inf'): above every value a counter of the model takes
Infinity == 1000000

\* _get_quota_type(path) for the paths under /api/v1/workflows/
WorkflowsQuotaType == "workflow_executions"

\* _is_quota_exceeded: used_<type> >= max_<type>, read with getattr defaults
\* from the UsageQuota row, which has neither column
_is_quota_exceeded(q, quota_type) ==
    LET used == GetAttr(q, "used_" \o quota_type, 0)
        max_allowed == GetAttr(q, "max_" \o quota_type, Infinity)
    IN used >= max_allowed

\* _increment_usage: save(update_fields=[used_<type>, ...]) writes the column
\* when the row has it and raises otherwise; process_response swallows the
\* exception
_increment_usage(q, quota_type) ==
    LET used_field == "used_" \o quota_type
    IN IF used_field \in DOMAIN q
       THEN [q EXCEPT ![used_field] = @ + 1]
       ELSE q

\* POST /api/v1/workflows/{id}/execute/ by a member of the organization,
\* through the middleware: process_request (429 when the quota is exceeded),
\* WorkflowViewSet.execute, process_response (usage tracked on a 2xx
\* response; _add_quota_headers reads quota.used_workflow_executions, which
\* the row does not have: the AttributeError becomes a 500 response).  The
\* MIDDLEWARE setting is in config/settings/base.py, which is not among the
\* sources: without the middleware the view's 201 is the response.
ExecuteGated(w, inp) ==
    /\ IF _is_quota_exceeded(quota, WorkflowsQuotaType)
       THEN /\ response' = [op |-> "execute", id |-> 0, code |-> 429]
            /\ UNCHANGED <<executions, queue, steps, quota>>
       ELSE IF ~workflows[w].is_active
       THEN /\ response' = [op |-> "execute", id |-> 0, code |-> 400]
            /\ UNCHANGED <<executions, queue, steps, quota>>
       ELSE /\ execute_workflow(w, inp, NoTrigger)
            /\ quota' = _increment_usage(quota, WorkflowsQuotaType)
            /\ \E code \in {201} \cup
                     (IF "used_" \o WorkflowsQuotaType \in DOMAIN quota
                      THEN {} ELSE {500}) :
                  response' = [op |-> "execute", id |-> 0, code |-> code]
    /\ UNCHANGED <<now, workflows, triggers, redelivered, runners, cancelReq,
                   incReq, incCount>>
    /\ UNCHANGED exceptQuota

\* ------------------------- WorkflowViewSet, WorkflowExecutionViewSet routes
\* every row of table workflows, with the columns the routes look at
AllWorkflowRows ==
    {[id |-> w, organization |-> WorkflowOrg[w]] : w \in Workflows}
       \cup created

\* WorkflowViewSet.get_queryset: the rows of ?organization=q, none without q
get_queryset(q) ==
    IF q = NoOrg THEN {}
    ELSE {row \in AllWorkflowRows : row.organization = q}

\* WorkflowExecutionViewSet.get_queryset: workflow__organization_id = q
get_queryset_executions(q) ==
    IF q = NoOrg THEN {}
    ELSE {e \in ExecIds : WorkflowOrg[executions[e].workflow] = q}

\* IsOrganizationMember.has_object_permission: an active membership of the
\* user in obj.organization; False for an object without that attribute
IsOrganizationMember(u, obj) ==
    IF "organization" \in DOMAIN obj
    THEN members[u].organization = obj.organization /\ members[u].is_active
    ELSE FALSE

\* GenericAPIView.get_object: 404 when the queryset has no such row, 403
\* when check_object_permissions refuses, 0 when the object is returned
get_object(u, found, obj) ==
    IF ~found THEN 404
    ELSE IF ~IsOrganizationMember(u, obj) THEN 403
    ELSE 0

Respond(u, route, q, code, rows, execs) ==
    /\ aclResp.n < MaxRequests
    /\ aclResp' = [n |-> aclResp.n + 1, user |-> u, route |-> route,
                   org |-> q, code |-> code, rows |-> rows, execs |-> execs]

\* GET /workflows/?organization=q: permission is has_permission only
ListWorkflows(u, q) ==
    /\ Respond(u, "list", q, 200, get_queryset(q), {})
    /\ UNCHANGED <<members, created, execVars>>
    /\ UNCHANGED exceptAcl

\* GET /workflows/{id}/?organization=q
RetrieveWorkflow(u, q, row) ==
    /\ LET code == get_object(u, row \in get_queryset(q), row)
       IN Respond(u, "retrieve", q, IF code = 0 THEN 200 ELSE code,
                  IF code = 0 THEN {row} ELSE {}, {})
    /\ UNCHANGED <<members, created, execVars>>
    /\ UNCHANGED exceptAcl

\* POST /workflows/ with organization = org in the body: CreateModelMixin
\* checks has_permission only; the serializer takes organization as sent
CreateWorkflow(u, org) ==
    /\ \E id \in CreatedIds :
          /\ \A row \in created : row.id # id
          /\ created' = created \cup {[id |-> id, organization |-> org]}
    /\ Respond(u, "create", org, 201, {}, {})
    /\ UNCHANGED <<members, execVars>>
    /\ UNCHANGED exceptAcl

\* POST /workflows/{id}/activate/ and /deactivate/
SetActive(u, q, w, active) ==
    LET row == [id |-> w, organization |-> WorkflowOrg[w]]
        code == get_object(u, row \in get_queryset(q), row)
    IN /\ Respond(u, "update", q, IF code = 0 THEN 200 ELSE code, {}, {})
       /\ workflows' = IF code = 0
                       THEN [workflows EXCEPT
                               ![w].is_active = active,
                               ![w].status = IF active THEN "active"
                                             ELSE "paused"]
                       ELSE workflows
       /\ UNCHANGED <<members, created, now, triggers, executions, steps,
                      queue, redelivered, runners, cancelReq, response>>
       /\ UNCHANGED exceptAcl

\* POST /workflows/{id}/execute/?organization=q
ExecuteRoute(u, q, w, inp) ==
    LET row == [id |-> w, organization |-> WorkflowOrg[w]]
        code == get_object(u, row \in get_queryset(q), row)
    IN /\ IF code = 0
          THEN /\ ExecuteView(w, inp)
               /\ Respond(u, "execute", q, response'.code, {}, {})
          ELSE /\ Respond(u, "execute", q, code, {}, {})
               /\ UNCHANGED execVars
       /\ UNCHANGED <<members, created>>
       /\ UNCHANGED exceptAcl

\* GET /executions/?organization=q
ListExecutions(u, q) ==
    /\ Respond(u, "list_executions", q, 200, {},
               get_queryset_executions(q))
    /\ UNCHANGED <<members, created, execVars>>
    /\ UNCHANGED exceptAcl

\* POST /executions/{id}/cancel/?organization=q: get_object, the status
\* check and execution.cancel()
CancelRoute(u, q, e) ==
    LET code == get_object(u, e \in get_queryset_executions(q),
                           executions[e])
    IN /\ IF code = 0
          THEN IF executions[e].status \notin Cancellable
               THEN /\ Respond(u, "cancel", q, 400, {}, {})
                    /\ UNCHANGED execVars
               ELSE /\ executions' = [executions EXCEPT ![e] =
                          SaveFields(@, cancel(@, now), FinishFields)]
                    /\ Respond(u, "cancel", q, 200, {}, {})
                    /\ UNCHANGED <<now, workflows, triggers, steps, queue,
                                   redelivered, runners, cancelReq, response>>
          ELSE /\ Respond(u, "cancel", q, code, {}, {})
               /\ UNCHANGED execVars
       /\ UNCHANGED <<members, created>>
       /\ UNCHANGED exceptAcl

\* POST /executions/{id}/retry/?organization=q
RetryRoute(u, q, e) ==
    LET code == get_object(u, e \in get_queryset_executions(q),
                           executions[e])
    IN /\ IF code = 0
          THEN /\ RetryView(e)
               /\ Respond(u, "retry", q, response'.code, {}, {})
          ELSE /\ Respond(u, "retry", q, code, {}, {})
               /\ UNCHANGED execVars
       /\ UNCHANGED <<members, created>>
       /\ UNCHANGED exceptAcl

\* an owner or admin changes a membership: is_active and role
UpdateMember(u, active, role) ==
    /\ members' = [members EXCEPT ![u].is_active = active, ![u].role = role]
    /\ members' # members
    /\ UNCHANGED <<created, aclResp, execVars>>
    /\ UNCHANGED exceptAcl

\* ------------------------------------------------ AIService (ai_engine)
\* the rows SemanticCache.objects.get(prompt_hash, model, expires_at__gt=now)
\* matches
CacheMatches(prompt, model) ==
    {i \in 1..Len(cache) : /\ cache[i].prompt_hash = sha256(prompt)
                           /\ cache[i].model = model
                           /\ cache[i].expires_at > now}

\* execute_ai_node up to the get() of _check_cache: one matching row is a
\* hit, none is a miss (DoesNotExist), several raise MultipleObjectsReturned,
\* which leaves execute_ai_node
AiCheckCache(c, prompt, model) ==
    /\ aiReq[c].pc = "idle"
    /\ aiCalls < MaxAiCalls
    /\ aiCalls' = aiCalls + 1
    /\ LET rows == CacheMatches(prompt, model)
           call == [NoAiCall EXCEPT !.prompt = prompt, !.model = model]
       IN aiReq' = [aiReq EXCEPT ![c] =
             IF rows = {} THEN [call EXCEPT !.pc = "miss"]
             ELSE IF Cardinality(rows) = 1
             THEN LET i == CHOOSE i \in rows : TRUE
                  IN [call EXCEPT !.pc = "hit", !.row = i,
                                  !.cache = cache[i]]
             ELSE [call EXCEPT !.pc = "raised"]]
    /\ UNCHANGED <<cache, execVars>>
    /\ UNCHANGED exceptCache

\* _check_cache after the get(): hit_count += 1 and last_hit_at on the
\* instance, save(update_fields=['hit_count', 'last_hit_at']), return
\* cache.response
AiCacheHit(c) ==
    /\ aiReq[c].pc = "hit"
    /\ LET obj == [aiReq[c].cache EXCEPT !.hit_count = @ + 1,
                                         !.last_hit_at = now]
       IN /\ cache' = [cache EXCEPT ![aiReq[c].row] =
                 SaveFields(@, obj, {"hit_count", "last_hit_at"})]
          /\ aiReq' = [aiReq EXCEPT ![c].pc = "returned",
                                    ![c].cache = obj,
                                    ![c].output = obj.response,
                                    ![c].cached = TRUE]
    /\ UNCHANGED <<aiCalls, execVars>>
    /\ UNCHANGED exceptCache

\* after a miss: the Gemini call answers resp, _cache_response creates a row
AiCallModel(c, resp) ==
    /\ aiReq[c].pc = "miss"
    /\ cache' = Append(cache,
          NewCacheRow(aiReq[c].prompt, aiReq[c].model, resp, now))
    /\ aiReq' = [aiReq EXCEPT ![c].pc = "returned", ![c].output = resp,
                              ![c].cached = FALSE]
    /\ UNCHANGED <<aiCalls, execVars>>
    /\ UNCHANGED exceptCache

\* after a miss: the Gemini call raises, execute_ai_node re-raises
AiCallRaises(c) ==
    /\ aiReq[c].pc = "miss"
    /\ aiReq' = [aiReq EXCEPT ![c].pc = "raised"]
    /\ UNCHANGED <<cache, aiCalls, execVars>>
    /\ UNCHANGED exceptCache

\* the caller takes the result; the next AI node may start
AiDone(c) ==
    /\ aiReq[c].pc \in {"returned", "raised"}
    /\ aiReq' = [aiReq EXCEPT ![c] = NoAiCall]
    /\ UNCHANGED <<cache, aiCalls, execVars>>
    /\ UNCHANGED exceptCache

\* ------------------------------- tasks.execute_scheduled_workflows
\* the elements of a finite set, in the order the query returns them
RECURSIVE SetToSeq(_)
SetToSeq(S) ==
    IF S = {} THEN <<>>
    ELSE LET x == CHOOSE x \in S : TRUE
         IN <<x>> \o SetToSeq(S \ {x})

\* the query without its workflow__is_active=True filter
scheduled_triggers_M ==
    {t \in Triggers : /\ triggers[t].trigger_type = "scheduled"
                      /\ triggers[t].is_active}

\* WorkflowTrigger.objects.filter(trigger_type='scheduled', is_active=True,
\* workflow__is_active=True)
scheduled_triggers ==
    {t \in Triggers : /\ triggers[t].trigger_type = "scheduled"
                      /\ triggers[t].is_active
                      /\ workflows[triggers[t].workflow].is_active}

\* next_run <= now + timedelta(minutes=1)
IsDue(t) ==
    get_next(triggers[t].cron_expression, now) <= now + Minute

\* one run of the task at the reading `now`: for every due trigger
\* execute_workflow(workflow, {}, None, trigger) and
\* trigger.increment_execution_count(); returns executed_count
execute_scheduled_workflows ==
    /\ ticks < MaxTicks
    /\ LET due == SetToSeq({t \in scheduled_triggers : IsDue(t)})
           n == Len(due)
       IN /\ executions' = executions \o
                 [i \in 1..n |->
                    NewExecution(triggers[due[i]].workflow, EmptyInput,
                                 due[i], 0, DefaultMaxRetries, NULL, now)]
          /\ queue' = queue \o [i \in 1..n |-> 1]
          /\ steps' = steps \o [i \in 1..n |-> <<>>]
          /\ triggers' = [t \in Triggers |->
                 IF \E i \in 1..n : due[i] = t
                 THEN increment_execution_count(triggers[t], now)
                 ELSE triggers[t]]
          /\ executed_count' = n
    /\ lastTick' = now
    /\ ticks' = ticks + 1
    /\ UNCHANGED <<now, workflows, redelivered, runners, cancelReq, response>>
    /\ UNCHANGED exceptSched

\* Celery Beat starts the task every minute; a run may start late by one
\* reading of the clock
MaxTickGap == Minute + 1

\* the wall clock advances; the next run of the task is not later than
\* MaxTickGap after the last one
ClockTick ==
    /\ now < MaxClock
    /\ (now + 1) - lastTick <= MaxTickGap
    /\ now' = now + 1
    /\ UNCHANGED <<workflows, triggers, executions, steps, queue,
                   redelivered, runners, cancelReq, response>>
    /\ UNCHANGED exceptExec

\* ------------------------------------------------------ specifications
\* requests of the workflows / executions API
ApiStep ==
    \/ \E w \in Workflows, inp \in Inputs :
          Len(executions) < MaxExecs /\ Execute(w, inp)
    \/ \E e \in ExecIds : CancelRequest(e)
    \/ CancelSave
    \/ \E e \in ExecIds :
          (Len(executions) < MaxExecs \/ ~can_retry(executions[e])) /\ Retry(e)

\* one worker's steps through execute_workflow_async
RunnerStep(r) ==
    \/ \E e \in ExecIds : RunnerStart(r, e)
    \/ RunnerCreateStep(r)
    \/ RunnerNodeOk(r)
    \/ RunnerNodeFail(r)
    \/ RunnerComplete(r)

\* Spec: the API and one worker; every task message is delivered once and
\* the clock stands still.
Next == ApiStep \/ RunnerStep(1)
Spec == Init /\ [][Next]_vars

\* SpecWorkers: Spec with every worker of the pool and the statistics job.
NextWorkers ==
    \/ ApiStep
    \/ \E r \in Workers : RunnerStep(r)
    \/ update_workflow_statistics
SpecWorkers == Init /\ [][NextWorkers]_vars

\* SpecRedeliver: Spec with repeated delivery of task messages.
NextRedeliver ==
    \/ Next
    \/ \E e \in ExecIds : Redeliver(e)
SpecRedeliver == Init /\ [][NextRedeliver]_vars

\* SpecTimed: Spec with a clock that advances.
NextTimed == Next \/ Tick
SpecTimed == Init /\ [][NextTimed]_vars

\* SpecRetry: one execution, submitted through the API or by the scheduled
\* tick, of a one-node workflow and its retries, with room for a retry chain
\* longer than max_retries.
NextRetry ==
    \/ \E w \in Workflows, inp \in Inputs :
          executions = <<>> /\ Execute(w, inp)
    \/ \E t \in Triggers : executions = <<>> /\ ExecuteScheduled(t)
    \/ \E e \in ExecIds :
          (Len(executions) < MaxRetryRows \/ ~can_retry(executions[e]))
          /\ Retry(e)
    \/ RunnerStep(1)
SpecRetry == InitWith(<<"a">>) /\ [][NextRetry]_vars

\* SpecQuota: the quota endpoints, with two clients of increment.
NextQuota ==
    \/ \E c \in QuotaClients, amount \in Amounts : IncrementRequest(c, amount)
    \/ \E c \in QuotaClients : IncrementSave(c)
    \/ ResetQuota
    \/ \E limit \in 0..MaxLimit, enforced \in BOOLEAN :
          UpdateQuota(limit, enforced)
SpecQuota == Init /\ [][NextQuota]_vars

\* SpecMeter: the usage counter charged one unit at a time, as by
\* OrganizationService.increment_quota with its default amount.
NextMeter ==
    \/ \E c \in QuotaClients : IncrementRequest(c, 1)
    \/ \E c \in QuotaClients : IncrementSave(c)
    \/ ResetQuota
    \/ \E limit \in 0..MaxLimit : UpdateQuota(limit, quota.is_enforced)
SpecMeter == Init /\ [][NextMeter]_vars

\* SpecGate: executions submitted through the quota middleware while the
\* quota row is charged, reset and updated.
NextGate ==
    \/ \E w \in Workflows, inp \in Inputs :
          Len(executions) < MaxExecs /\ ExecuteGated(w, inp)
    \/ IncrementRequest(1, 1)
    \/ IncrementSave(1)
    \/ ResetQuota
    \/ RunnerStep(1)
SpecGate == Init /\ [][NextGate]_vars

\* SpecAcl: the workflow and execution routes called by a viewer of o1 and
\* by a member of another organization, each naming any organization.
NextAcl ==
    \/ \E u \in Users, q \in Orgs \cup {NoOrg} : ListWorkflows(u, q)
    \/ \E u \in Users, q \in Orgs \cup {NoOrg}, row \in AllWorkflowRows :
          RetrieveWorkflow(u, q, row)
    \/ \E u \in Users, org \in Orgs : CreateWorkflow(u, org)
    \/ \E u \in Users, q \in Orgs \cup {NoOrg}, w \in Workflows,
          active \in BOOLEAN : SetActive(u, q, w, active)
    \/ \E u \in Users, q \in Orgs \cup {NoOrg}, w \in Workflows,
          inp \in Inputs :
          Len(executions) < MaxExecs /\ ExecuteRoute(u, q, w, inp)
    \/ \E u \in Users, q \in Orgs \cup {NoOrg} : ListExecutions(u, q)
    \/ \E u \in Users, q \in Orgs \cup {NoOrg}, e \in ExecIds :
          CancelRoute(u, q, e)
    \/ \E u \in Users, q \in Orgs \cup {NoOrg}, e \in ExecIds :
          RetryRoute(u, q, e)
    \/ \E u \in Users, active \in BOOLEAN, role \in Roles :
          UpdateMember(u, active, role)
SpecAcl == Init /\ [][NextAcl]_vars

\* SpecCache: AI nodes of two executions running at once, with a clock that
\* lets cache rows expire.
NextCache ==
    \/ \E c \in AiCallers, prompt \in Prompts, model \in Models :
          AiCheckCache(c, prompt, model)
    \/ \E c \in AiCallers : AiCacheHit(c)
    \/ \E c \in AiCallers, resp \in Responses : AiCallModel(c, resp)
    \/ \E c \in AiCallers : AiCallRaises(c)
    \/ \E c \in AiCallers : AiDone(c)
    \/ Tick
SpecCache == Init /\ [][NextCache]_vars

\* SpecSchedule: the scheduled tick against the wall clock, for a trigger
\* that fires every minute or every second minute.
NextSchedule ==
    \/ ClockTick
    \/ execute_scheduled_workflows
SpecSchedule == InitOf(<<"a">>, Crons) /\ [][NextSchedule]_vars

\* SpecActive: manual and scheduled submissions while a member activates and
\* deactivates the workflow.
NextActive ==
    \/ Tick
    \/ execute_scheduled_workflows
    \/ \E w \in Workflows, inp \in Inputs :
          Len(executions) < MaxExecs /\ Execute(w, inp)
    \/ \E w \in Workflows, active \in BOOLEAN :
          SetActive("ann", WorkflowOrg[w], w, active)
SpecActive == InitOf(<<"a">>, Crons) /\ [][NextActive]_vars

\* SpecLive: submissions and one worker that may stop; the worker, while it
\* is up, keeps taking messages and keeps stepping through its run.
NextLive ==
    \/ \E w \in Workflows, inp \in Inputs :
          Len(executions) < MaxExecs /\ Execute(w, inp)
    \/ RunnerStep(1)
    \/ \E e \in ExecIds : StopBeforeStart(e)
    \/ \E requeue \in BOOLEAN : StopInLoop(1, requeue)
SpecLive == Init /\ [][NextLive]_vars /\ WF_vars(RunnerStep(1))

\* SpecDefs: workflow definitions updated through the API, checked by the
\* validation task and run by one worker.
NextDefs ==
    \/ \E w \in Workflows, d \in Definitions :
          partial_update(w, [definition |-> d])
    \/ \E w \in Workflows : ValidateTask(w)
    \/ \E w \in Workflows, inp \in Inputs :
          Len(executions) < MaxExecs /\ Execute(w, inp)
    \/ RunnerStep(1)
SpecDefs == InitWith(<<"a">>) /\ [][NextDefs]_vars

\* SpecStatus: a workflow activated, deactivated, archived, updated and
\* paused by the failure-rate job while its executions run.
NextStatus ==
    \/ \E w \in Workflows, active \in BOOLEAN :
          SetActive("ann", WorkflowOrg[w], w, active)
    \/ \E w \in Workflows : Archive(w)
    \/ \E w \in Workflows, data \in PatchData :
          "definition" \notin DOMAIN data /\ partial_update(w, data)
    \/ auto_pause_failing_workflows
    \/ \E w \in Workflows, inp \in Inputs :
          Len(executions) < MaxExecs /\ Execute(w, inp)
    \/ RunnerStep(1)
SpecStatus == InitWith(<<"a">>) /\ [][NextStatus]_vars

\* SpecVersions: versions of a workflow created and rolled back to.
NextVersions ==
    \/ \E w \in Workflows, d \in Definitions : CreateVersion(w, d)
    \/ \E w \in Workflows, n \in 1..(MaxVersions + 1) : Rollback(w, n)
SpecVersions == InitWith(<<"a">>) /\ [][NextVersions]_vars

\* SpecRunVersions: a two-node workflow updated, versioned and rolled back
\* while one worker runs its executions.
RunDefinitions ==
    {Definition(<<"a">>, {}), Definition(<<"a", "b">>, {<<"a", "b">>})}
NextRunVersions ==
    \/ \E w \in Workflows, d \in RunDefinitions :
          partial_update(w, [definition |-> d])
    \/ \E w \in Workflows, d \in RunDefinitions : CreateVersion(w, d)
    \/ \E w \in Workflows, n \in 1..(MaxVersions + 1) : Rollback(w, n)
    \/ \E w \in Workflows, inp \in Inputs :
          Len(executions) < MaxExecs /\ Execute(w, inp)
    \/ RunnerStep(1)
SpecRunVersions == Init /\ [][NextRunVersions]_vars

\* SpecOrder: executions of a workflow whose definition is the chain
\* a -> b, with the nodes array in either order.
OrderDefinitions ==
    {Definition(<<"a", "b">>, {<<"a", "b">>}),
     Definition(<<"b", "a">>, {<<"a", "b">>})}
NextOrder ==
    \/ \E w \in Workflows, d \in OrderDefinitions :
          partial_update(w, [definition |-> d])
    \/ \E w \in Workflows, inp \in Inputs :
          Len(executions) < MaxExecs /\ Execute(w, inp)
    \/ RunnerStep(1)
SpecOrder ==
    (\E d \in OrderDefinitions : InitDef(d, {"* * * * *"}))
    /\ [][NextOrder]_vars

\* SpecLogin: password logins for one email while the clock advances.
NextLogin ==
    \/ \E password_ok \in BOOLEAN : login_user(password_ok)
    \/ Tick
SpecLogin == Init /\ [][NextLogin]_vars

\* SpecSso: two callback requests with the same state while the clock
\* advances past the token's expiry.
NextSso ==
    \/ \E c \in SsoClients : ExchangeRead(c)
    \/ \E c \in SsoClients : ExchangeSave(c)
    \/ Tick
SpecSso == Init /\ [][NextSso]_vars

\* SpecProvision: users provisioned through a connection that allows one
\* domain.
NextProvision ==
    \E email \in Emails, first_name \in FirstNames, auto \in BOOLEAN :
       provision_user(email, first_name, auto)
SpecProvision == Init /\ [][NextProvision]_vars

\* SpecReset: one quota row charged, reset by hand and by the periodic job,
\* over days, weeks, months and years.
NextReset ==
    \/ IncrementRequest(1, 1)
    \/ IncrementSave(1)
    \/ ResetQuota
    \/ \E period \in Periods, active \in BOOLEAN : UpdatePeriod(period, active)
    \/ reset_periodic_quotas
    \/ \E d \in {1, 7, 30, 365} : AdvanceDays(d)
SpecReset == Init /\ [][NextReset]_vars

\* ------------------------------------------------------------- claims

InFlight(w) == CountRows(w, Cancellable)

\* C5: for every workflow W, execution_count = success_count +
\* failure_count + (number of in-flight executions of W) in every reachable
\* state, and the three counters never decrease.
C5_CounterInvariant ==
    /\ [](\A w \in Workflows :
            workflows[w].execution_count =
               workflows[w].success_count + workflows[w].failure_count
               + InFlight(w))
    /\ [][\A w \in Workflows :
            /\ workflows'[w].execution_count >= workflows[w].execution_count
            /\ workflows'[w].success_count >= workflows[w].success_count
            /\ workflows'[w].failure_count >= workflows[w].failure_count]_vars

C7_StepNumbersDense ==
    \A e \in ExecIds :
       /\ \A i, j \in 1..Len(steps[e]) :
             i # j => steps[e][i].step_number # steps[e][j].step_number
       /\ {steps[e][i].step_number : i \in 1..Len(steps[e])}
             = 1..Len(steps[e])

\* the original execution a retry descends from, through parent_execution
RECURSIVE Original(_)
Original(e) ==
    IF executions[e].parent_execution = NULL
    THEN e
    ELSE Original(executions[e].parent_execution)
RetriesOf(e) == {d \in ExecIds : d # e /\ Original(d) = e}

IsRetryOf(p) ==
    /\ Len(executions') = Len(executions) + 1
    /\ executions'[Len(executions')].parent_execution = p

C10_RetryChain ==
    /\ [](\A e \in ExecIds :
            LET p == executions[e].parent_execution
            IN p # NULL
               => /\ p \in ExecIds
                  /\ executions[e].retry_count = executions[p].retry_count + 1
                  /\ executions[e].input_data = executions[p].input_data
                  /\ executions[e].trigger = executions[p].trigger)
    /\ [][\A p \in ExecIds :
            IsRetryOf(p)
            => /\ executions'[Len(executions')].status = "pending"
               /\ executions'[p] = executions[p]]_vars

\* C10 witness: a retry of a retry of an execution submitted by a trigger
C10_Witness ==
    \E e \in ExecIds : /\ executions[e].retry_count = 2
                       /\ executions[e].trigger \in Triggers
                       /\ executions[e].status = "pending"

\* C11: every UsageQuota with is_enforced = true has
\* 0 <= current_usage <= limit in every reachable state, after any sequence
\* of increment requests (with any amount), resets and quota updates.
C11_QuotaWithinLimit ==
    quota.is_enforced
    => (0 <= quota.current_usage /\ quota.current_usage <= quota.limit)

\* C12: increments are never lost or applied on stale values: an
\* increment_usage(1) call that reports success has grown the stored
\* current_usage by exactly one.
C12_NoLostIncrement ==
    [][\A c \in QuotaClients :
          (incReq[c].pc = "read" /\ incReq[c].amount = 1
             /\ incReq'[c].result = "ok")
          => quota'.current_usage = quota.current_usage + 1]_vars

\* C13: when the organization's enforced execution quota has current_usage
\* equal to limit, a request to execute a workflow fails with 429, creates
\* no WorkflowExecution row and queues no runner task.
C13_QuotaBlocksExecute ==
    [][(quota.is_enforced /\ quota.current_usage = quota.limit
          /\ response' # response /\ response'.op = "execute")
       => /\ response'.code = 429
          /\ UNCHANGED <<executions, queue>>]_vars

\* the (module, action) a mutating route requires
RequiredModule(route) ==
    IF route \in {"create", "update"} THEN "workflows" ELSE "executions"
RequiredAction(route) ==
    IF route \in {"create", "execute"} THEN "create" ELSE "update"
MutatingRoutes == {"create", "update", "execute", "cancel", "retry"}

\* C14: on every mutating workflow or execution route, a principal whose
\* active membership in the organization of the resource does not grant the
\* required (module, action) permission receives 403 and no row is created
\* or changed.
C14_PermissionDenied ==
    [][(/\ aclResp'.n # aclResp.n
        /\ aclResp'.route \in MutatingRoutes
        /\ aclResp'.org \in Orgs
        /\ members[aclResp'.user].organization = aclResp'.org
        /\ members[aclResp'.user].is_active
        /\ ~has_permission(members[aclResp'.user],
                           RequiredModule(aclResp'.route),
                           RequiredAction(aclResp'.route)))
       => /\ aclResp'.code = 403
          /\ UNCHANGED <<workflows, created, executions, queue>>]_vars

\* C15: a principal without an active membership in organization O can
\* neither read nor change the workflows and executions of O: every request
\* that names O is denied, returns no row of O and changes nothing.
C15_TenantIsolation ==
    [][(/\ aclResp'.n # aclResp.n
        /\ aclResp'.org \in Orgs
        /\ ~(/\ members[aclResp'.user].organization = aclResp'.org
              /\ members[aclResp'.user].is_active))
       => /\ aclResp'.code \in {403, 404}
          /\ aclResp'.rows = {}
          /\ aclResp'.execs = {}
          /\ UNCHANGED <<workflows, created, executions, queue>>]_vars

\* C16: at every moment there is at most one SemanticCache row per
\* (prompt_hash, model), also after two concurrent misses on one prompt and
\* after a row has expired and the prompt is requested again.
C16_OneRowPerKey ==
    \A i, j \in 1..Len(cache) :
       (cache[i].prompt_hash = cache[j].prompt_hash
          /\ cache[i].model = cache[j].model)
       => i = j

\* C17: every cache hit returns the response stored when the row was
\* created and increases the stored hit_count of that row by exactly one,
\* also when several hits on the row are served at once.
C17_HitCounted ==
    [][\A c \in AiCallers :
          (aiReq[c].pc = "hit" /\ aiReq'[c].pc = "returned")
          => /\ aiReq'[c].cached
             /\ aiReq'[c].output = cache[aiReq[c].row].response
             /\ cache'[aiReq[c].row].response = cache[aiReq[c].row].response
             /\ cache'[aiReq[c].row].hit_count
                   = cache[aiReq[c].row].hit_count + 1]_vars

\* C18: for each scheduled trigger and each wall-clock minute,
\* execute_scheduled_workflows submits at most one execution, for any
\* sequence of ticks.
C18_OnePerMinute ==
    \A e1, e2 \in ExecIds :
       (/\ executions[e1].trigger \in Triggers
        /\ executions[e1].trigger = executions[e2].trigger
        /\ executions[e1].created_at \div Minute
              = executions[e2].created_at \div Minute)
       => e1 = e2

\* C19: for each active scheduled trigger on an active workflow, every
\* firing time of its cron expression that lies at least a minute after the
\* first tick has an execution submitted for it (in the minute up to the
\* firing time), when consecutive ticks are at most MaxTickGap apart.
C19_EveryFiringSubmitted ==
    \A t \in Triggers, f \in (2 * Minute + 1)..MaxClock :
       (/\ f % CronPeriod(triggers[t].cron_expression) = 0
        /\ now > f)
       => \E e \in ExecIds :
             /\ executions[e].trigger = t
             /\ executions[e].created_at >= f - Minute
             /\ executions[e].created_at <= f

\* C20: no execution is created for a workflow whose is_active flag is
\* false at submit time: no step adds an execution row of an inactive
\* workflow, a manual execute request on an inactive workflow is answered
\* 400 and leaves the rows and the queue as they were, and a scheduled tick
\* leaves them as they were when every workflow is inactive.
C20_InactiveNotSubmitted ==
    [][/\ \A e \in (Len(executions) + 1)..Len(executions') :
            workflows[executions'[e].workflow].is_active
       /\ \A w \in Workflows, inp \in Inputs :
            (Execute(w, inp) /\ ~workflows[w].is_active)
            => /\ response'.code = 400
               /\ executions' = executions
               /\ queue' = queue
       /\ (ticks' = ticks + 1 /\ \A w \in Workflows : ~workflows[w].is_active)
            => /\ executed_count' = 0
               /\ executions' = executions
               /\ queue' = queue]_vars

\* an every-minute trigger's workflow is inactive, a tick has run and
\* submitted nothing, and an execute request has been answered 400
C20_Witness ==
    /\ \A w \in Workflows : ~workflows[w].is_active
    /\ \A t \in Triggers : triggers[t].cron_expression = "* * * * *"
    /\ ticks > 0
    /\ executed_count = 0
    /\ response.op = "execute"
    /\ response.code = 400
    /\ Len(executions) = 0

\* C21: every execution accepted by execute_workflow is eventually
\* completed, failed or cancelled, also when the worker that pulled its task
\* stops before marking it running or in the middle of the node loop.
C21_EventuallyFinished ==
    \A e \in 1..MaxExecs :
       (Len(executions) >= e)
       ~> (Len(executions) >= e /\ executions[e].status \in Terminal)

\* the targets of the edges that leave a node of S
Successors(edges, S) == {edge[2] : edge \in {x \in edges : x[1] \in S}}

\* the nodes reached from S along at most k edges
RECURSIVE ReachWithin(_, _, _)
ReachWithin(edges, S, k) ==
    IF k = 0 THEN S
    ELSE ReachWithin(edges, S \cup Successors(edges, S), k - 1)

\* the edges contain a directed cycle (a self-loop included)
HasCycle(definition) ==
    \E edge \in definition.edges :
       edge[1] \in ReachWithin(definition.edges, {edge[2]},
                               Cardinality(definition.edges))

\* C22: a definition whose edges contain a directed cycle is rejected by
\* validation: no workflow stores one, no run has loaded one, and
\* validate_workflow_definition reports it as invalid.
C22_CycleRejected ==
    /\ \A w \in Workflows : ~HasCycle(workflows[w].definition)
    /\ \A r \in Workers :
          runners[r].pc # "idle" => ~HasCycle(runners[r].workflow.definition)
    /\ HasCycle(validation.definition) => ~validation.valid

\* C23: in every reachable state of a workflow, status = active implies
\* is_active = true.
C23_ActiveImpliesFlag ==
    \A w \in Workflows :
       workflows[w].status = "active" => workflows[w].is_active

\* C24: a rollback to version n leaves the workflow with the definition of
\* version n; no step changes or removes a version row, so after
\* create_version(D1), create_version(D2) and the rollback both versions
\* exist with their original definitions; and a version row that is created
\* has a version number larger than every existing one of the workflow.
C24_RollbackRestores ==
    [][/\ \A i \in 1..Len(versions) :
            Len(versions') >= i /\ versions'[i] = versions[i]
       /\ (response'.op = "rollback" /\ response'.code = 200)
            => \E i \in 1..Len(versions) :
                  /\ versions[i].version_number = response'.id
                  /\ workflows'[versions[i].workflow].definition
                        = versions[i].definition
       /\ \A j \in (Len(versions) + 1)..Len(versions') :
            \A i \in 1..Len(versions) :
               versions[i].workflow = versions'[j].workflow
               => versions'[j].version_number > versions[i].version_number
      ]_vars

\* two versions with different definitions exist and the workflow has been
\* rolled back to the first: it has the first one's definition again
C24_Witness ==
    /\ Len(versions) = 2
    /\ versions[1].definition # versions[2].definition
    /\ response = [op |-> "rollback", id |-> versions[1].version_number,
                   code |-> 200]
    /\ workflows[versions[1].workflow].definition = versions[1].definition
    /\ workflows[versions[1].workflow].current_version
          = versions[1].version_number
    /\ workflows[versions[1].workflow].version = versions[2].version_number

\* C28: the runner executes the definition of the workflow's current
\* version: while a run is in progress, every step of its execution has a
\* node_id among the nodes of the definition of the version that was the
\* workflow's current_version when the run started.
C28_RunsCurrentVersion ==
    \A r \in Workers :
       (runners[r].pc # "idle" /\ runners[r].workflow.current_version # NULL)
       => \A i \in VersionRows(runners[r].execution.workflow,
                               runners[r].workflow.current_version) :
             \A k \in 1..Len(steps[runners[r].id]) :
                steps[runners[r].id][k].node_id
                   \in NodeIds(versions[i].definition.nodes)

\* C29: nodes run in topological order: while a run is in progress, for
\* every edge (source, target) of the definition it loaded, a step of target
\* is preceded by a completed step of source, whatever the order of the
\* nodes array.
C29_TopologicalOrder ==
    \A r \in Workers :
       runners[r].pc # "idle"
       => \A edge \in runners[r].workflow.definition.edges :
             \A k \in 1..Len(steps[runners[r].id]) :
                steps[runners[r].id][k].node_id = edge[2]
                => \E j \in 1..(k - 1) :
                      /\ steps[runners[r].id][j].node_id = edge[1]
                      /\ steps[runners[r].id][j].status = "completed"

\* C25: the account is locked for the configured duration only: a login
\* with the correct password succeeds when every login with a wrong
\* password lies more than ACCOUNT_LOCKOUT_DURATION back, whatever attempts
\* were made while the account was locked.
C25_LockExpires ==
    [][(/\ Len(attempts') = Len(attempts) + 1
        /\ loginResp'.password_ok
        /\ \A i \in 1..Len(attempts) :
              attempts[i].failure_reason = "invalid_credentials"
              => attempts[i].attempted_at < now - LockoutDuration)
       => loginResp'.result = "ok"]_vars

\* C26: an SSO state token authorizes at most one code exchange: at most
\* one call of exchange_code_for_tokens with the state gets past the state
\* check, later and concurrent calls included.
C26_OneExchange == accepted <= 1

\* the part of the address after the last '@'
EmailDomain(email) == split(email)[Len(split(email))]

PeriodBegan(q) ==
    IF q.last_reset_at = NULL THEN q.created_at ELSE q.last_reset_at

\* C30: every active quota with period daily, weekly, monthly or yearly has
\* current_usage 0 after the first run of reset_periodic_quotas that starts
\* more than its period (1, 7, 30, 365 days) after its period began, a quota
\* that has never been reset included.
C30_PeriodicReset ==
    [][(/\ resetRuns' = resetRuns + 1
        /\ quota.is_active
        /\ quota.period \in DOMAIN PeriodDays
        /\ now - PeriodBegan(quota) > PeriodDays[quota.period])
       => quota'.current_usage = 0]_vars

====
